---- MODULE Spec2Model ----
(***************************************************************************)
(* A model of the SQLite MCP server of src/src/index.ts: the request       *)
(* handlers registered on the MCP Server (tools, resources, prompts), the  *)
(* in-memory insights list, and the Express endpoints that fan messages    *)
(* out to SSE clients through an EventEmitter.                             *)
(*                                                                         *)
(* SQL statements are sequences of one-character strings, so that          *)
(* toLowerCase, trim and startsWith are computed as the code computes      *)
(* them.  Texts that are only concatenated (insights, JSON output) are     *)
(* TLA+ strings.  A JavaScript value that may be undefined is <<>> when    *)
(* undefined and <<v>> when it is v.                                       *)
(***************************************************************************)
EXTENDS Integers, Sequences, FiniteSets, TLC

----------------------------------------------------------------------------
(* Bounds of the model *)

\* rows the table may hold
MaxRows == 2
\* entries the insights list may hold
MaxInsights == 2
\* messages emitted on the EventEmitter
MaxPublish == 2
\* SSE connections ever opened
MaxConns == 3
\* tool calls waiting on the database handle at one time
MaxInFlight == 2

----------------------------------------------------------------------------
(* JavaScript values *)

Undefined == <<>>
Def(v) == <<v>>
IsUndefined(o) == o = <<>>
Val(o) == o[1]

----------------------------------------------------------------------------
(* String.prototype.toLowerCase / trim / startsWith on character sequences *)

UpperToLower ==
    [c \in {"A","B","C","D","E","F","G","H","I","J","K","L","M","N","O","P",
            "Q","R","S","T","U","V","W","X","Y","Z"} |->
       CASE c = "A" -> "a" [] c = "B" -> "b" [] c = "C" -> "c" [] c = "D" -> "d"
         [] c = "E" -> "e" [] c = "F" -> "f" [] c = "G" -> "g" [] c = "H" -> "h"
         [] c = "I" -> "i" [] c = "J" -> "j" [] c = "K" -> "k" [] c = "L" -> "l"
         [] c = "M" -> "m" [] c = "N" -> "n" [] c = "O" -> "o" [] c = "P" -> "p"
         [] c = "Q" -> "q" [] c = "R" -> "r" [] c = "S" -> "s" [] c = "T" -> "t"
         [] c = "U" -> "u" [] c = "V" -> "v" [] c = "W" -> "w" [] c = "X" -> "x"
         [] c = "Y" -> "y" [] c = "Z" -> "z"]

ToLowerCase(s) ==
    [i \in 1..Len(s) |-> IF s[i] \in DOMAIN UpperToLower
                         THEN UpperToLower[s[i]] ELSE s[i]]

WhiteSpace == {" ", "\t", "\n", "\r"}

RECURSIVE TrimStart(_)
TrimStart(s) ==
    IF s # <<>> /\ Head(s) \in WhiteSpace THEN TrimStart(Tail(s)) ELSE s

RECURSIVE TrimEnd(_)
TrimEnd(s) ==
    IF s # <<>> /\ s[Len(s)] \in WhiteSpace
    THEN TrimEnd(SubSeq(s, 1, Len(s) - 1)) ELSE s

Trim(s) == TrimEnd(TrimStart(s))

StartsWith(s, prefix) ==
    /\ Len(prefix) <= Len(s)
    /\ SubSeq(s, 1, Len(prefix)) = prefix

----------------------------------------------------------------------------
(* Statement texts the clients send *)

\* 'SELECT * FROM t'
SelectT ==
    <<"S","E","L","E","C","T"," ","*"," ","F","R","O","M"," ","t">>
\* '  select * from t '
SelectPadded ==
    <<" "," ","s","e","l","e","c","t"," ","*"," ","f","r","o","m"," ","t",
      " ">>
\* 'selectx'
SelectGarbage ==
    <<"s","e","l","e","c","t","x">>
\* 'explain select 1'
ExplainSelect ==
    <<"e","x","p","l","a","i","n"," ","s","e","l","e","c","t"," ","1">>
\* "INSERT INTO t(v) VALUES ('x')"
InsertT ==
    <<"I","N","S","E","R","T"," ","I","N","T","O"," ","t","(","v",")"," ","V",
      "A","L","U","E","S"," ","(","'","x","'",")">>
\* 'CREATE TABLE t(id INTEGER PRIMARY KEY, v TEXT)'
CreateT ==
    <<"C","R","E","A","T","E"," ","T","A","B","L","E"," ","t","(","i","d"," ",
      "I","N","T","E","G","E","R"," ","P","R","I","M","A","R","Y"," ","K","E",
      "Y",","," ","v"," ","T","E","X","T",")">>
\* '\tcreate table t(id integer primary key, v text)'
CreatePadded ==
    <<"\t","c","r","e","a","t","e"," ","t","a","b","l","e"," ","t","(","i",
      "d"," ","i","n","t","e","g","e","r"," ","p","r","i","m","a","r","y"," ",
      "k","e","y",","," ","v"," ","t","e","x","t",")">>
\* 'create tablet'
CreateGarbage ==
    <<"c","r","e","a","t","e"," ","t","a","b","l","e","t">>
\* 'DROP TABLE t'
DropT ==
    <<"D","R","O","P"," ","T","A","B","L","E"," ","t">>
\* 'SEL'
ShortText ==
    <<"S","E","L">>

Queries ==
    {SelectT, SelectPadded, SelectGarbage, ExplainSelect, InsertT, CreateT,
     CreatePadded, CreateGarbage, DropT, ShortText}

\* "SELECT name FROM sqlite_master WHERE type='table'"
ListTablesQuery ==
    <<"S","E","L","E","C","T"," ","n","a","m","e"," ","F","R","O","M"," ","s",
      "q","l","i","t","e","_","m","a","s","t","e","r"," ","W","H","E","R","E",
      " ","t","y","p","e","=","'","t","a","b","l","e","'">>

\* `PRAGMA table_info(${table_name})`: undefined interpolates as 'undefined'
TableInfoQuery(table_name) ==
    <<"P","R","A","G","M","A"," ","t","a","b","l","e","_","i","n","f","o","(">>
    \o (IF IsUndefined(table_name)
        THEN <<"u","n","d","e","f","i","n","e","d">> ELSE Val(table_name))
    \o <<")">>

TableNames == {<<"t">>, <<"u">>}

----------------------------------------------------------------------------
(* Array.prototype.join and JSON.stringify(value, null, 2) *)

\* join renders an undefined element as the empty string
RECURSIVE ArrayJoin(_, _)
ArrayJoin(arr, sep) ==
    IF arr = <<>> THEN ""
    ELSE LET first == IF IsUndefined(Head(arr)) THEN "" ELSE Val(Head(arr))
         IN  IF Len(arr) = 1 THEN first
             ELSE first \o sep \o ArrayJoin(Tail(arr), sep)

\* a JSON scalar: [t |-> "num", n |-> 1], [t |-> "str", s |-> "x"], [t |-> "null"]
Num(n) == [t |-> "num", n |-> n]
Str(s) == [t |-> "str", s |-> s]
Null == [t |-> "null"]

StringifyScalar(v) ==
    CASE v.t = "num" -> ToString(v.n)
      [] v.t = "str" -> "\"" \o v.s \o "\""
      [] v.t = "null" -> "null"

\* an object is a sequence of <<key, scalar>> pairs, in property order
StringifyObject(obj, indent) ==
    IF obj = <<>> THEN "{}"
    ELSE "{\n"
         \o ArrayJoin([i \in 1..Len(obj) |->
                Def(indent \o "  \"" \o obj[i][1] \o "\": "
                    \o StringifyScalar(obj[i][2]))], ",\n")
         \o "\n" \o indent \o "}"

StringifyObjects(arr) ==
    IF arr = <<>> THEN "[]"
    ELSE "[\n"
         \o ArrayJoin([i \in 1..Len(arr) |->
                Def("  " \o StringifyObject(arr[i], "  "))], ",\n")
         \o "\n]"

StringifyStrings(arr) ==
    IF arr = <<>> THEN "[]"
    ELSE "[\n"
         \o ArrayJoin([i \in 1..Len(arr) |->
                Def("  " \o StringifyScalar(Str(arr[i])))], ",\n")
         \o "\n]"

----------------------------------------------------------------------------
(* The sqlite3 Database handle (':memory:'), reduced to one table t(id, v). *)
(* A database is [exists |-> whether t exists, rows |-> its rows in rowid   *)
(* order].                                                                 *)

EmptyDb == [exists |-> FALSE, rows |-> <<>>]

Norm(q) == ToLowerCase(Trim(q))

NextRowId(rows) == IF rows = <<>> THEN 1 ELSE rows[Len(rows)].id + 1

RowObject(r) == << <<"id", Num(r.id)>>, <<"v", Str(r.v)>> >>

ColumnObject(cid, name, type, pk) ==
    << <<"cid", Num(cid)>>, <<"name", Str(name)>>, <<"type", Str(type)>>,
       <<"notnull", Num(0)>>, <<"dflt_value", Null>>, <<"pk", Num(pk)>> >>

SqlOk(d, rows) == [err |-> FALSE, rows |-> rows, db |-> d]
SqlError(d) == [err |-> TRUE, rows |-> <<>>, db |-> d]

\* The statements the engine knows, as it reads them: keywords in any case,
\* surrounding white space ignored
NormSelectT == Norm(SelectT)
NormExplainSelect == Norm(ExplainSelect)
NormInsertT == Norm(InsertT)
NormCreateT == Norm(CreateT)
NormDropT == Norm(DropT)
NormListTables == Norm(ListTablesQuery)
NormTableInfoT == Norm(TableInfoQuery(Def(<<"t">>)))
NormTableInfoU == Norm(TableInfoQuery(Def(<<"u">>)))
NormTableInfoUndefined == Norm(TableInfoQuery(Undefined))

\* One statement run by the engine: whether it failed, the rows it yields
\* and the database after it.  A failed statement leaves the database as it was.
Exec(d, q) ==
    LET n == Norm(q) IN
    CASE n = NormSelectT ->
           IF d.exists
           THEN SqlOk(d, [i \in 1..Len(d.rows) |-> RowObject(d.rows[i])])
           ELSE SqlError(d)
      [] n = NormExplainSelect -> SqlOk(d, <<>>)
      [] n = NormInsertT ->
           IF d.exists
           THEN SqlOk([d EXCEPT !.rows =
                         Append(@, [id |-> NextRowId(d.rows), v |-> "x"])], <<>>)
           ELSE SqlError(d)
      [] n = NormCreateT ->
           IF d.exists THEN SqlError(d)
           ELSE SqlOk([exists |-> TRUE, rows |-> <<>>], <<>>)
      [] n = NormDropT ->
           IF d.exists THEN SqlOk(EmptyDb, <<>>) ELSE SqlError(d)
      [] n = NormListTables ->
           SqlOk(d, IF d.exists THEN << << <<"name", Str("t")>> >> >> ELSE <<>>)
      [] n = NormTableInfoT ->
           SqlOk(d, IF d.exists
                    THEN <<ColumnObject(0, "id", "INTEGER", 1),
                           ColumnObject(1, "v", "TEXT", 0)>>
                    ELSE <<>>)
      [] n = NormTableInfoU -> SqlOk(d, <<>>)
      [] n = NormTableInfoUndefined -> SqlOk(d, <<>>)
      [] OTHER -> SqlError(d)

\* promisify(db.all.bind(db))(query): all's callback is (err, rows)
PromisifyAll(d, q) ==
    LET r == Exec(d, q)
    IN  [rejected |-> r.err, value |-> Def(r.rows), db |-> r.db]

\* promisify(db.run.bind(db))(query): run's callback is called with the error
\* alone (the statement, with lastID and changes, is the callback's `this`),
\* so the promise resolves with undefined
PromisifyRun(d, q) ==
    LET r == Exec(d, q)
    IN  [rejected |-> r.err, value |-> Undefined, db |-> r.db]

----------------------------------------------------------------------------
(* State *)

VARIABLES
    db,          \* this.db: the database behind the handle
    insights,    \* this.insights
    request,     \* the MCP request handled last
    response,    \* what its handler returned or threw
    before,      \* db and insights when that request arrived
    dbCalls,     \* the statements that request ran on this.db, in order
    appended     \* the insight argument of every append_insight that returned

mcpVars == <<db, insights, request, response, before, dbCalls, appended>>

VARIABLES
    listeners,    \* the EventEmitter's 'message' listeners, in the order added
    conn,         \* each SSE connection: "idle", "open" or "closed"
    stream,       \* what res.write has written to each SSE connection
    timer,        \* the setTimeout of run(): "pending" or "fired"
    httpRequest,  \* the last POST /messages: its body, and what it emitted
    httpResponse, \* the response to the last POST /messages
    published,    \* every message emitted, with the connections open then
    attachedAt,   \* per connection, how many emits preceded its listener
    closedAt      \* per connection, how many emits preceded its close

hubVars == <<listeners, conn, stream, timer, httpRequest, httpResponse,
             published, attachedAt, closedAt>>

VARIABLES
    inflight,     \* the tool calls suspended at their await, in arrival order
    lastStep      \* the handler step taken last, and the calls in flight then

concVars == <<inflight, lastStep>>

vars == <<db, insights, request, response, before, dbCalls, appended,
          listeners, conn, stream, timer, httpRequest, httpResponse,
          published, attachedAt, closedAt, inflight, lastStep>>

----------------------------------------------------------------------------
(* What a handler returns or throws *)

TextResult(text) ==
    [kind |-> "result", content |-> <<[type |-> "text", text |-> text]>>]

\* throw new McpError(ErrorCode.<code>, message)
ThrowMcpError(code, message) ==
    [kind |-> "error", error |-> "McpError", code |-> Def(code),
     message |-> message]

\* any other exception: a TypeError of the runtime, an error of sqlite3
Throw(error) ==
    [kind |-> "error", error |-> error, code |-> Undefined, message |-> ""]

Outcome(resp, d, ins, calls) ==
    [response |-> resp, db |-> d, insights |-> ins, calls |-> calls]

----------------------------------------------------------------------------
(* ListToolsRequestSchema handler: the catalog *)

ToolNames ==
    {"read_query", "write_query", "create_table", "list_tables",
     "describe_table", "append_insight"}

NoFields == [query |-> Undefined, table_name |-> Undefined, insight |-> Undefined]

----------------------------------------------------------------------------
(* CallToolRequestSchema handler, one operator per case *)

\* 'select'
PrefixSelect ==
    <<"s","e","l","e","c","t">>
\* 'create table'
PrefixCreateTable ==
    <<"c","r","e","a","t","e"," ","t","a","b","l","e">>

\* String.prototype.includes
Includes(s, sub) ==
    \E i \in 0..(Len(s) - Len(sub)) : SubSeq(s, i + 1, i + Len(sub)) = sub

\* the check written with includes in place of startsWith
ReadPolicyOk_Includes(query) == Includes(Trim(ToLowerCase(query)), PrefixSelect)

\* query.toLowerCase().trim().startsWith('select')
ReadPolicyOk(query) == StartsWith(Trim(ToLowerCase(query)), PrefixSelect)

\* query.toLowerCase().trim().startsWith('create table')
CreatePolicyOk(query) == StartsWith(Trim(ToLowerCase(query)), PrefixCreateTable)

\* destructuring undefined arguments throws, and so does undefined.toLowerCase()
ReadQuery(arguments, d, ins) ==
    IF IsUndefined(arguments) \/ IsUndefined(Val(arguments).query)
    THEN Outcome(Throw("TypeError"), d, ins, <<>>)
    ELSE LET query == Val(Val(arguments).query) IN
         IF ~ReadPolicyOk(query)
         THEN Outcome(ThrowMcpError("InvalidParams",
                                    "Only SELECT queries are allowed"),
                      d, ins, <<>>)
         ELSE LET r == PromisifyAll(d, query) IN
              IF r.rejected
              THEN Outcome(Throw("SqliteError"), r.db, ins, <<query>>)
              ELSE Outcome(TextResult(StringifyObjects(Val(r.value))),
                           r.db, ins, <<query>>)

\* JSON.stringify({ affected_rows: result.changes }, null, 2): reading a
\* property of an undefined result throws; an undefined property is left out
WriteQuery(arguments, d, ins) ==
    IF IsUndefined(arguments) \/ IsUndefined(Val(arguments).query)
    THEN Outcome(Throw("TypeError"), d, ins, <<>>)
    ELSE LET query == Val(Val(arguments).query)
             r == PromisifyRun(d, query)
         IN  IF r.rejected
             THEN Outcome(Throw("SqliteError"), r.db, ins, <<query>>)
             ELSE IF IsUndefined(r.value)
             THEN Outcome(Throw("TypeError"), r.db, ins, <<query>>)
             ELSE Outcome(
                    TextResult(StringifyObject(
                        IF IsUndefined(Val(r.value).changes) THEN <<>>
                        ELSE << <<"affected_rows",
                                  Num(Val(Val(r.value).changes))>> >>, "")),
                    r.db, ins, <<query>>)

CreateTable(arguments, d, ins) ==
    IF IsUndefined(arguments) \/ IsUndefined(Val(arguments).query)
    THEN Outcome(Throw("TypeError"), d, ins, <<>>)
    ELSE LET query == Val(Val(arguments).query) IN
         IF ~CreatePolicyOk(query)
         THEN Outcome(ThrowMcpError("InvalidParams",
                                    "Query must be a CREATE TABLE statement"),
                      d, ins, <<>>)
         ELSE LET r == PromisifyRun(d, query) IN
              IF r.rejected
              THEN Outcome(Throw("SqliteError"), r.db, ins, <<query>>)
              ELSE Outcome(TextResult("Table created successfully"),
                           r.db, ins, <<query>>)

\* result.map(r => r.name)
ListTables(arguments, d, ins) ==
    LET r == PromisifyAll(d, ListTablesQuery) IN
    IF r.rejected
    THEN Outcome(Throw("SqliteError"), r.db, ins, <<ListTablesQuery>>)
    ELSE LET rows == Val(r.value) IN
         Outcome(TextResult(StringifyStrings(
                     [i \in 1..Len(rows) |-> rows[i][1][2].s])),
                 r.db, ins, <<ListTablesQuery>>)

\* an undefined table_name is interpolated into the statement like any other
DescribeTable(arguments, d, ins) ==
    IF IsUndefined(arguments)
    THEN Outcome(Throw("TypeError"), d, ins, <<>>)
    ELSE LET q == TableInfoQuery(Val(arguments).table_name)
             r == PromisifyAll(d, q)
         IN  IF r.rejected
             THEN Outcome(Throw("SqliteError"), r.db, ins, <<q>>)
             ELSE Outcome(TextResult(StringifyObjects(Val(r.value))),
                          r.db, ins, <<q>>)

\* the insight put in front of the list (unshift) instead of at its end
AppendInsight_Unshift(arguments, d, ins) ==
    IF IsUndefined(arguments)
    THEN Outcome(Throw("TypeError"), d, ins, <<>>)
    ELSE Outcome(TextResult("Insight added successfully"),
                 d, <<Val(arguments).insight>> \o ins, <<>>)

\* this.insights.push(insight), whatever insight is
AppendInsight(arguments, d, ins) ==
    IF IsUndefined(arguments)
    THEN Outcome(Throw("TypeError"), d, ins, <<>>)
    ELSE Outcome(TextResult("Insight added successfully"),
                 d, Append(ins, Val(arguments).insight), <<>>)

\* the switch without its default case: the handler returns nothing
UnknownTool_NoDefault(name, d, ins) ==
    Outcome([kind |-> "result", content |-> <<>>], d, ins, <<>>)

\* the default case throwing the code the other handlers use
UnknownTool_InvalidRequest(name, d, ins) ==
    Outcome(ThrowMcpError("InvalidRequest", "Unknown tool: " \o name),
            d, ins, <<>>)

UnknownTool(name, d, ins) ==
    Outcome(ThrowMcpError("MethodNotFound", "Unknown tool: " \o name),
            d, ins, <<>>)

CallToolHandler(name, arguments, d, ins) ==
    CASE name = "read_query" -> ReadQuery(arguments, d, ins)
      [] name = "write_query" -> WriteQuery(arguments, d, ins)
      [] name = "create_table" -> CreateTable(arguments, d, ins)
      [] name = "list_tables" -> ListTables(arguments, d, ins)
      [] name = "describe_table" -> DescribeTable(arguments, d, ins)
      [] name = "append_insight" -> AppendInsight(arguments, d, ins)
      [] OTHER -> UnknownTool(name, d, ins)

----------------------------------------------------------------------------
(* ReadResourceRequestSchema handler *)

InsightsUri == "memo://insights"

ReadResourceHandler(uri, ins) ==
    IF uri # InsightsUri
    THEN ThrowMcpError("InvalidRequest", "Resource not found")
    ELSE [kind |-> "result",
          contents |-> <<[uri |-> uri, mimeType |-> "text/plain",
                          text |-> ArrayJoin(ins, "\n\n")]>>]

----------------------------------------------------------------------------
(* GetPromptRequestSchema handler *)

PromptName == "mcp-demo"

\* PROMPT_TEMPLATE.replace('{topic}', topic), trimmed (the rocket is left out)
PromptText(topic) ==
    "Oh, Hey there! I see you've chosen the topic " \o topic
    \o ". Let's get started!\n\n"
    \o "I'll help you create a comprehensive business scenario using our "
    \o "SQLite database. We'll:\n"
    \o "1. Set up relevant database tables\n"
    \o "2. Populate them with sample data\n"
    \o "3. Run some insightful queries\n"
    \o "4. Generate business insights\n"
    \o "5. Create a dashboard"

\* !request.params.arguments?.topic holds of an empty topic too
GetPromptHandler(name, arguments) ==
    IF name # PromptName
    THEN ThrowMcpError("InvalidRequest", "Unknown prompt")
    ELSE IF \/ IsUndefined(arguments)
            \/ IsUndefined(Val(arguments).topic)
            \/ Val(Val(arguments).topic) = ""
    THEN ThrowMcpError("InvalidRequest", "Missing required argument: topic")
    ELSE LET topic == Val(Val(arguments).topic) IN
         [kind |-> "result",
          description |-> "Demo template for " \o topic,
          messages |-> <<[role |-> "user",
                          content |-> <<[type |-> "text",
                                         text |-> PromptText(topic)]>>]>>]

----------------------------------------------------------------------------
(* The requests the clients send *)

RequestedTools == ToolNames \cup {"drop_table"}

InsightTexts == {"A", "B"}

QueryArguments == {Def([NoFields EXCEPT !.query = Def(q)]) : q \in Queries}
TableArguments == {Def([NoFields EXCEPT !.table_name = Def(n)]) : n \in TableNames}
InsightArguments == {Def([NoFields EXCEPT !.insight = Def(i)]) : i \in InsightTexts}

\* no arguments at all, an empty arguments object, or the argument the tool
\* declares; a tool that is not in the catalog is sent any of them
ToolArguments(name) ==
    {Undefined, Def(NoFields)} \cup
    CASE name \in {"read_query", "write_query", "create_table"} -> QueryArguments
      [] name = "list_tables" -> {}
      [] name = "describe_table" -> TableArguments
      [] name = "append_insight" -> InsightArguments
      [] OTHER -> QueryArguments \cup TableArguments \cup InsightArguments

RequestedUris == {InsightsUri, "memo://other"}

RequestedPrompts == {PromptName, "other"}

PromptArguments ==
    {Undefined, Def([topic |-> Undefined]), Def([topic |-> Def("")]),
     Def([topic |-> Def("sales")])}

Req(method, name, arguments) ==
    [method |-> method, name |-> name, arguments |-> arguments]

----------------------------------------------------------------------------
(* Initial state: the constructor has run *)

Conns == 1..MaxConns

\* a handler step: whose it is, what it returned (if it returned), whether
\* it ran a statement on this.db or read or changed this.insights, and the
\* names of the other tool calls that had started and not yet returned
Step(kind, name, resp, touches, calls, skip) ==
    [kind |-> kind, name |-> name, response |-> resp, touches |-> touches,
     during |-> {calls[j].name : j \in (1..Len(calls)) \ {skip}}]

Init ==
    /\ db = EmptyDb
    /\ insights = <<>>
    /\ request = Req("none", "", Undefined)
    /\ response = [kind |-> "none"]
    /\ before = [db |-> EmptyDb, insights |-> <<>>]
    /\ dbCalls = <<>>
    /\ appended = <<>>
    /\ listeners = <<>>
    /\ conn = [c \in Conns |-> "idle"]
    /\ stream = [c \in Conns |-> <<>>]
    /\ timer = "pending"
    /\ httpRequest = [body |-> Undefined, emitted |-> <<>>]
    /\ httpResponse = [status |-> 0, type |-> "", json |-> Undefined]
    /\ published = <<>>
    /\ attachedAt = [c \in Conns |-> 0]
    /\ closedAt = [c \in Conns |-> 0]
    /\ inflight = <<>>
    /\ lastStep = Step("none", "", [kind |-> "none"], {}, <<>>, 0)

----------------------------------------------------------------------------
(* One action per MCP request *)

CallTool ==
    \E name \in RequestedTools :
    \E arguments \in ToolArguments(name) :
    \E o \in {CallToolHandler(name, arguments, db, insights)} :
       /\ Len(o.db.rows) <= MaxRows
       /\ Len(o.insights) <= MaxInsights
       /\ request' = Req("tools/call", name, arguments)
       /\ before' = [db |-> db, insights |-> insights]
       /\ response' = o.response
       /\ db' = o.db
       /\ insights' = o.insights
       /\ dbCalls' = o.calls
       /\ appended' = IF name = "append_insight" /\ o.response.kind = "result"
                      THEN Append(appended, Val(arguments).insight)
                      ELSE appended
       /\ UNCHANGED hubVars
       /\ UNCHANGED concVars

ReadResource ==
    \E uri \in RequestedUris :
       /\ request' = Req("resources/read", uri, Undefined)
       /\ before' = [db |-> db, insights |-> insights]
       /\ response' = ReadResourceHandler(uri, insights)
       /\ dbCalls' = <<>>
       /\ UNCHANGED <<db, insights, appended>>
       /\ UNCHANGED hubVars
       /\ UNCHANGED concVars

GetPrompt ==
    \E name \in RequestedPrompts, arguments \in PromptArguments :
       /\ request' = Req("prompts/get", name, arguments)
       /\ before' = [db |-> db, insights |-> insights]
       /\ response' = GetPromptHandler(name, arguments)
       /\ dbCalls' = <<>>
       /\ UNCHANGED <<db, insights, appended>>
       /\ UNCHANGED hubVars
       /\ UNCHANGED concVars

Next == CallTool \/ ReadResource \/ GetPrompt

Spec == Init /\ [][Next]_vars

----------------------------------------------------------------------------
(* Broadcast messages: JSON objects with the properties type, message, x *)

Message(type, message, x) == [type |-> type, message |-> message, x |-> x]

MsgX1 == Message(Undefined, Undefined, Def(1))
MsgEmpty == Message(Undefined, Undefined, Undefined)
\* the message run() emits one second after the server listens
MsgStarted ==
    Message(Def("server_started"),
            Def("SQLite MCP server is ready to accept connections"), Undefined)

\* JSON.stringify(message): the properties that are set, no white space
StringifyMessage(m) ==
    LET type == IF IsUndefined(m.type) THEN <<>>
                ELSE <<Def("\"type\":\"" \o Val(m.type) \o "\"")>>
        message == IF IsUndefined(m.message) THEN <<>>
                   ELSE <<Def("\"message\":\"" \o Val(m.message) \o "\"")>>
        x == IF IsUndefined(m.x) THEN <<>>
             ELSE <<Def("\"x\":" \o ToString(Val(m.x)))>>
    IN  "{" \o ArrayJoin(type \o message \o x, ",") \o "}"

\* the request bodies posted: none, JSON texts, a text cut short
WellFormedBodies == {"{ \"x\" : 1 }"}
MalformedBodies == {"{\"x\":"}
Bodies ==
    {Undefined} \cup {Def(b) : b \in WellFormedBodies \cup MalformedBodies}

\* JSON.parse of a body
JsonParse(text) ==
    CASE text = "{\"x\":1}" -> [ok |-> TRUE, value |-> MsgX1]
      [] text = "{ \"x\" : 1 }" -> [ok |-> TRUE, value |-> MsgX1]
      [] OTHER -> [ok |-> FALSE, value |-> MsgEmpty]

\* bodyParser.json(): what it leaves in req.body, or the error it passes on.
\* Without a body, body-parser 1 sets req.body to {} and body-parser 2 leaves
\* it undefined; a body that does not parse is passed to next as a 400 error.
BodyParserJson(raw) ==
    IF IsUndefined(raw)
    THEN {[error |-> FALSE, body |-> Def(MsgEmpty)],
          [error |-> FALSE, body |-> Undefined]}
    ELSE LET parsed == JsonParse(Val(raw)) IN
         IF parsed.ok THEN {[error |-> FALSE, body |-> Def(parsed.value)]}
         ELSE {[error |-> TRUE, body |-> Undefined]}

\* res.status(status).json(value)
JsonResponse(status, text) ==
    [status |-> status, type |-> "application/json", json |-> Def(text)]

\* Express's own error handler answers an error no route handled: the
\* error's status and an HTML page
DefaultErrorResponse(status) ==
    [status |-> status, type |-> "text/html", json |-> Undefined]

----------------------------------------------------------------------------
(* The EventEmitter and the SSE endpoint *)

PingEvent == "event: ping\ndata: connected\n\n"

\* res.write(`data: ${JSON.stringify(message)}\n\n`)
DataEvent(message) == "data: " \o StringifyMessage(message) \o "\n\n"

\* messageListener of connection c
MessageListener(c, message, st) ==
    [st EXCEPT ![c] = Append(@, DataEvent(message))]

\* an emit that stops after the first listener
Emit_FirstOnly(ls, message, st) ==
    IF ls = <<>> THEN st ELSE MessageListener(Head(ls), message, st)

\* eventEmitter.emit('message', message): the listeners run one after the
\* other, in the order they were added
RECURSIVE Emit(_, _, _)
Emit(ls, message, st) ==
    IF ls = <<>> THEN st
    ELSE Emit(Tail(ls), message, MessageListener(Head(ls), message, st))

\* a close handler that leaves the listener registered
Off_Keeps(ls, c) == ls

\* eventEmitter.off('message', listener)
RECURSIVE Off(_, _)
Off(ls, c) ==
    IF ls = <<>> THEN <<>>
    ELSE IF Head(ls) = c THEN Tail(ls)
    ELSE <<Head(ls)>> \o Off(Tail(ls), c)

OpenConns == {c \in Conns : conn[c] = "open"}

Publication(message) == [message |-> message, open |-> OpenConns]

\* app.get('/sse'): connections are opened in the order of their numbers
SseConnect ==
    \E c \in Conns :
       /\ conn[c] = "idle"
       /\ \A b \in Conns : b < c => conn[b] # "idle"
       /\ stream' = [stream EXCEPT ![c] = Append(@, PingEvent)]
       /\ listeners' = Append(listeners, c)
       /\ conn' = [conn EXCEPT ![c] = "open"]
       /\ attachedAt' = [attachedAt EXCEPT ![c] = Len(published)]
       /\ UNCHANGED <<timer, httpRequest, httpResponse, published, closedAt>>
       /\ UNCHANGED mcpVars
       /\ UNCHANGED concVars

\* req.on('close')
SseClose ==
    \E c \in Conns :
       /\ conn[c] = "open"
       /\ listeners' = Off(listeners, c)
       /\ conn' = [conn EXCEPT ![c] = "closed"]
       /\ closedAt' = [closedAt EXCEPT ![c] = Len(published)]
       /\ UNCHANGED <<stream, timer, httpRequest, httpResponse, published,
                      attachedAt>>
       /\ UNCHANGED mcpVars
       /\ UNCHANGED concVars

\* app.post('/messages'), behind bodyParser.json()
PostMessages ==
    \E raw \in Bodies :
    \E parsed \in BodyParserJson(raw) :
       /\ Len(published) < MaxPublish
       /\ httpRequest' =
            [body |-> raw,
             emitted |-> IF parsed.error \/ IsUndefined(parsed.body) THEN <<>>
                         ELSE <<Val(parsed.body)>>]
       /\ IF parsed.error
          THEN /\ httpResponse' = DefaultErrorResponse(400)
               /\ UNCHANGED <<stream, published>>
          ELSE IF IsUndefined(parsed.body)
          THEN /\ httpResponse' =
                    JsonResponse(400, "{\"error\":\"Invalid message format\"}")
               /\ UNCHANGED <<stream, published>>
          ELSE /\ stream' = Emit(listeners, Val(parsed.body), stream)
               /\ published' = Append(published, Publication(Val(parsed.body)))
               /\ httpResponse' = JsonResponse(200, "{\"success\":true}")
       /\ UNCHANGED <<listeners, conn, timer, attachedAt, closedAt>>
       /\ UNCHANGED mcpVars
       /\ UNCHANGED concVars

\* the setTimeout callback of run()
ServerStarted ==
    /\ timer = "pending"
    /\ timer' = "fired"
    /\ stream' = Emit(listeners, MsgStarted, stream)
    /\ published' = Append(published, Publication(MsgStarted))
    /\ UNCHANGED <<listeners, conn, httpRequest, httpResponse, attachedAt,
                   closedAt>>
    /\ UNCHANGED mcpVars
    /\ UNCHANGED concVars

HubNext == SseConnect \/ SseClose \/ PostMessages \/ ServerStarted

HubSpec == Init /\ [][HubNext]_vars

----------------------------------------------------------------------------
(* The handlers as the event loop runs them: an async handler runs to its   *)
(* await, the statement it handed to this.db runs later, and its            *)
(* continuation later still.  The Server starts the handler of each request *)
(* when the request arrives; it keeps no queue of requests.                 *)

\* an await placed before the switch: every tool call is suspended
Suspends_Always(name, arguments) == TRUE

\* whether the handler reaches one of its awaits (promisify(db.all) or
\* promisify(db.run)): it does when it hands a statement to this.db
Suspends(name, arguments) ==
    CallToolHandler(name, arguments, EmptyDb, <<>>).calls # <<>>

\* the tool calls that arrive: a read, a read the policy rejects, a write,
\* a create, an append and a call to an unknown tool
ConcArguments(name) ==
    CASE name = "read_query" ->
           {Def([NoFields EXCEPT !.query = Def(q)]) : q \in {SelectT, InsertT}}
      [] name = "write_query" -> {Def([NoFields EXCEPT !.query = Def(InsertT)])}
      [] name = "create_table" -> {Def([NoFields EXCEPT !.query = Def(CreateT)])}
      [] name = "append_insight" -> {Def([NoFields EXCEPT !.insight = Def("A")])}
      [] OTHER -> {Undefined}

ConcTools == RequestedTools \ {"describe_table", "list_tables"}

RemoveAt(seq, i) == SubSeq(seq, 1, i - 1) \o SubSeq(seq, i + 1, Len(seq))

\* a tool call arrives: its handler runs up to its await, or to its end
ConcCallTool ==
    \E name \in ConcTools :
    \E arguments \in ConcArguments(name) :
    \E o \in {CallToolHandler(name, arguments, db, insights)} :
       /\ IF Suspends(name, arguments)
          THEN /\ Len(inflight) < MaxInFlight
               /\ inflight' = Append(inflight,
                                [name |-> name, arguments |-> arguments,
                                 statement |-> o.calls, pc |-> "awaiting",
                                 response |-> [kind |-> "none"]])
               /\ lastStep' = Step("suspend", name, [kind |-> "none"], {},
                                   inflight, 0)
               /\ UNCHANGED insights
          ELSE /\ Len(o.insights) <= MaxInsights
               /\ insights' = o.insights
               /\ lastStep' = Step("return", name, o.response,
                                   IF o.insights # insights THEN {"insights"}
                                   ELSE {},
                                   inflight, 0)
               /\ UNCHANGED inflight
       /\ UNCHANGED <<db, request, response, before, dbCalls, appended>>
       /\ UNCHANGED hubVars

\* a resources/read of memo://insights arrives: its handler has no await
ConcReadResource ==
    /\ lastStep' = Step("return", InsightsUri,
                        ReadResourceHandler(InsightsUri, insights),
                        {"insights"}, inflight, 0)
    /\ UNCHANGED inflight
    /\ UNCHANGED mcpVars
    /\ UNCHANGED hubVars

\* this.db runs the statement of one of the suspended calls
ConcExecute ==
    \E i \in 1..Len(inflight) :
    \E o \in {CallToolHandler(inflight[i].name, inflight[i].arguments,
                              db, insights)} :
       /\ inflight[i].pc = "awaiting"
       /\ Len(o.db.rows) <= MaxRows
       /\ Len(o.insights) <= MaxInsights
       /\ db' = o.db
       /\ insights' = o.insights
       /\ inflight' = [inflight EXCEPT ![i].pc = "executed",
                                       ![i].response = o.response]
       /\ lastStep' = Step("execute", inflight[i].name, [kind |-> "none"],
                           {"db"}, inflight, i)
       /\ UNCHANGED <<request, response, before, dbCalls, appended>>
       /\ UNCHANGED hubVars

\* the promise of a suspended call settles: the rest of its handler runs and
\* its result or error is returned
ConcResume ==
    \E i \in 1..Len(inflight) :
       /\ inflight[i].pc = "executed"
       /\ inflight' = RemoveAt(inflight, i)
       /\ lastStep' = Step("return", inflight[i].name, inflight[i].response,
                           {}, inflight, i)
       /\ UNCHANGED mcpVars
       /\ UNCHANGED hubVars

ConcNext == ConcCallTool \/ ConcReadResource \/ ConcExecute \/ ConcResume

ConcSpec == Init /\ [][ConcNext]_vars

----------------------------------------------------------------------------
(* Properties of the request handlers *)

IsToolCall(name) == request.method = "tools/call" /\ request.name = name

HasArgument(field) ==
    /\ ~IsUndefined(request.arguments)
    /\ ~IsUndefined(Val(request.arguments)[field])

Argument(field) == Val(Val(request.arguments)[field])

IsMcpError(code) ==
    /\ response.kind = "error"
    /\ response.error = "McpError"
    /\ response.code = Def(code)

Untouched ==
    /\ db = before.db
    /\ insights = before.insights
    /\ dbCalls = <<>>

\* C1: a read_query whose query, lowercased and trimmed, does not begin with
\* 'select', and a create_table whose query does not begin with
\* 'create table', fails with McpError InvalidParams, and no statement of
\* that request reaches the database handle.
C1_PolicyViolation ==
    \A name \in {"read_query", "create_table"} :
       LET prefix == IF name = "read_query" THEN PrefixSelect
                     ELSE PrefixCreateTable
       IN  (/\ IsToolCall(name)
            /\ HasArgument("query")
            /\ ~StartsWith(Trim(ToLowerCase(Argument("query"))), prefix))
           => (IsMcpError("InvalidParams") /\ Untouched)

C1_Witness ==
    /\ IsToolCall("create_table")
    /\ HasArgument("query")
    /\ Argument("query") = DropT
    /\ before.db.exists
    /\ IsMcpError("InvalidParams")
    /\ db.exists

\* C2: a write_query whose statement the database handle runs without error
\* returns a result of exactly one text block holding {"affected_rows": n};
\* for the INSERT of one row, n is 1.
C2_WriteQueryResult ==
    (/\ IsToolCall("write_query")
     /\ HasArgument("query")
     /\ ~Exec(before.db, Argument("query")).err)
    => /\ response.kind = "result"
       /\ Len(response.content) = 1
       /\ response.content[1].type = "text"
       /\ Norm(Argument("query")) = NormInsertT
          => response.content[1].text \in
               {"{\"affected_rows\":1}", "{\n  \"affected_rows\": 1\n}"}

\* the text of an append_insight call; a call without an insight has none
TextOf(insight) == IF IsUndefined(insight) THEN "" ELSE Val(insight)

\* texts joined by a blank line, built from the left
RECURSIVE BlankLineJoined(_)
BlankLineJoined(calls) ==
    IF calls = <<>> THEN ""
    ELSE IF Len(calls) = 1 THEN TextOf(calls[1])
    ELSE BlankLineJoined(SubSeq(calls, 1, Len(calls) - 1))
         \o "\n\n" \o TextOf(calls[Len(calls)])

\* C3: reading memo://insights returns the texts of all append_insight calls
\* that returned so far, in call order, joined by "\n\n" (the empty string
\* when there were none), whatever other requests were handled in between;
\* after append_insight("A") and append_insight("B") it returns "A\n\nB".
C3_InsightsResource ==
    (request.method = "resources/read" /\ request.name = InsightsUri)
    => /\ response.kind = "result"
       /\ Len(response.contents) = 1
       /\ response.contents[1].text = BlankLineJoined(appended)
       /\ appended = <<Def("A"), Def("B")>>
          => response.contents[1].text = "A\n\nB"

C3_Witness ==
    /\ request.method = "resources/read"
    /\ request.name = InsightsUri
    /\ appended = <<Def("A"), Def("B")>>
    /\ response.contents[1].text = "A\n\nB"

RequiredArgument ==
    [name \in ToolNames \ {"list_tables"} |->
       CASE name = "describe_table" -> "table_name"
         [] name = "append_insight" -> "insight"
         [] OTHER -> "query"]

\* C5: a tool call without the argument its tool requires fails with
\* McpError InvalidRequest and changes neither the database nor the insights.
C5_MissingArgument ==
    \A name \in DOMAIN RequiredArgument :
       (IsToolCall(name) /\ ~HasArgument(RequiredArgument[name]))
       => (IsMcpError("InvalidRequest") /\ Untouched)

\* C6: a request that is answered with an error leaves the database and the
\* insights as they were before it.
C6_ErrorMeansNoEffect ==
    response.kind = "error"
    => (db = before.db /\ insights = before.insights)

UnknownName ==
    \/ request.method = "tools/call" /\ request.name \notin ToolNames
    \/ request.method = "resources/read" /\ request.name # InsightsUri
    \/ request.method = "prompts/get" /\ request.name # PromptName

\* C7 as stated: a request naming an unknown tool, resource or prompt is
\* answered with McpError InvalidRequest.
C7_UnknownIsInvalidRequest == UnknownName => IsMcpError("InvalidRequest")

\* C7 as the code has it: an unknown resource and an unknown prompt are
\* answered with McpError InvalidRequest, an unknown tool with McpError
\* MethodNotFound.
C7_UnknownErrorCodes ==
    UnknownName
    => IF request.method = "tools/call" THEN IsMcpError("MethodNotFound")
       ELSE IsMcpError("InvalidRequest")

C7_Witness ==
    /\ request.method = "tools/call"
    /\ request.name = "drop_table"
    /\ IsMcpError("MethodNotFound")

\* C8: a tool call whose name is not in the catalog fails with the
\* unknown-tool error, whatever its arguments, and neither runs a statement
\* on the database handle nor changes the database or the insights.
C8_UnknownToolTouchesNothing ==
    (request.method = "tools/call" /\ request.name \notin ToolNames)
    => /\ response.kind = "error"
       /\ response.error = "McpError"
       /\ response.message = "Unknown tool: " \o request.name
       /\ Untouched

C8_Witness ==
    /\ request.method = "tools/call"
    /\ request.name \notin ToolNames
    /\ HasArgument("query")
    /\ Argument("query") = DropT
    /\ db.exists
    /\ Len(insights) > 0
    /\ response.kind = "error"

----------------------------------------------------------------------------
(* Properties of the Express endpoints *)

Messages == {MsgX1, MsgEmpty, MsgStarted}

Count(seq, x) == Cardinality({i \in 1..Len(seq) : seq[i] = x})

\* C4: every message emitted is written exactly once to each connection
\* whose listener was attached at that moment, and never to a connection
\* opened later or closed before: per connection and message, the events
\* written are as many as the emits of that message made while it was open.
C4_ExactlyOnceDelivery ==
    \A c \in Conns, m \in Messages :
       Count(stream[c], DataEvent(m)) =
          Cardinality({i \in 1..Len(published) :
                         published[i].message = m /\ c \in published[i].open})

C4_Witness ==
    /\ Len(published) = 1
    /\ published[1].message = MsgX1
    /\ published[1].open = {1, 2}
    /\ Count(stream[1], DataEvent(MsgX1)) = 1
    /\ Count(stream[2], DataEvent(MsgX1)) = 1
    /\ conn[3] = "open"
    /\ stream[3] = <<PingEvent>>

\* C9: POST /messages with a well-formed JSON body emits that body once and
\* answers 200 {"success":true}; without a body or with a malformed one it
\* emits nothing and answers with a 4xx status and a JSON body.
C9_Ingestion ==
    httpResponse.status # 0
    => IF ~IsUndefined(httpRequest.body) /\ JsonParse(Val(httpRequest.body)).ok
       THEN /\ httpRequest.emitted = <<JsonParse(Val(httpRequest.body)).value>>
            /\ httpResponse = JsonResponse(200, "{\"success\":true}")
       ELSE /\ httpRequest.emitted = <<>>
            /\ httpResponse.status \in 400..499
            /\ httpResponse.type = "application/json"
            /\ ~IsUndefined(httpResponse.json)

\* the emits a connection was open for: those after its listener was added
\* and before its close
LastEmit(c) == IF conn[c] = "closed" THEN closedAt[c] ELSE Len(published)

\* C10: what is written to an SSE connection is the ping event, then one
\* data event for each message emitted between its connect and its close,
\* in emit order, and nothing after the close; the listeners registered are
\* those of the open connections, one each.
C10_SseStream ==
    /\ \A c \in Conns :
          IF conn[c] = "idle" THEN stream[c] = <<>>
          ELSE stream[c] =
                 <<PingEvent>> \o
                 [i \in 1..(LastEmit(c) - attachedAt[c]) |->
                    DataEvent(published[attachedAt[c] + i].message)]
    /\ Len(listeners) = Cardinality(OpenConns)
    /\ {listeners[i] : i \in 1..Len(listeners)} = OpenConns

C10_Witness ==
    /\ conn[1] = "closed"
    /\ conn[2] = "open"
    /\ attachedAt[1] = 0
    /\ closedAt[1] = 1
    /\ Len(published) = 2
    /\ Len(stream[1]) = 2
    /\ Len(stream[2]) = 3
    /\ listeners = <<2>>

----------------------------------------------------------------------------
(* Properties of the handlers under the event loop *)

UsesHandle ==
    {"read_query", "write_query", "create_table", "list_tables",
     "describe_table"}

\* C11 as stated: a step that runs a statement on the database handle, or
\* reads or appends to the insights, is never taken while another tool call
\* has started and not yet returned.
C11_OneAtATime == lastStep.touches # {} => lastStep.during = {}

\* C11 as the code has it: a tool call is in flight across the steps of
\* other requests only while it waits on a statement it handed to the
\* database handle; append_insight, a call to an unknown tool and a call
\* rejected before it reaches the handle return in the step they start in.
\* While a call waits, other requests do run statements on the handle and
\* read and append to the insights.
C11_InterleavedOnlyAtAwait ==
    /\ \A i \in 1..Len(inflight) :
          /\ inflight[i].name \in UsesHandle
          /\ Len(inflight[i].statement) = 1
    /\ lastStep.during \subseteq UsesHandle
    /\ lastStep.name \notin UsesHandle => lastStep.kind \in {"none", "return"}

C11_Witness ==
    /\ Len(inflight) = 1
    /\ inflight[1].name = "read_query"
    /\ inflight[1].pc = "awaiting"
    /\ lastStep.name = "append_insight"
    /\ lastStep.touches = {"insights"}
    /\ lastStep.during = {"read_query"}
    /\ lastStep.response.kind = "result"

====
